---- MODULE Spec2Model ----
(***************************************************************************)
(* A model of logplexc.Client (logplexc.go): the token bucket that bounds  *)
(* concurrent POST workers, the size/time flush triggers, maybeWork's      *)
(* admit-or-drop decision, syncWorker's outcome accounting, the statistics *)
(* lock, and Close's finalize channel and WaitGroup.                       *)
(*                                                                         *)
(* Goroutines are processes with a program counter; every access to a      *)
(* shared object (channel, WaitGroup, mutex, atomic, MiniClient buffer) is *)
(* one step.  MiniClient (BufferMessage, SwapBundle, Post) is not part of  *)
(* logplexc.go and is modelled from its contract.                          *)
(***************************************************************************)
EXTENDS Integers, Sequences, FiniteSets, Bags, TLC

\* ---------------------------------------------------------------- bounds
\* Largest Config.Concurrency tried.
MaxConcurrency == 2
\* BufferMessage calls that get past the closed check, over all callers.
MaxMsgs == 2
\* Ticks the time.Ticker delivers.
MaxTicks == 2
\* ------------------------------------------------------ program constants
TimeTriggerPeriodic == 0
TimeTriggerImmediate == 1
TimeTriggerNever == 2
\* http.StatusNoContent
StatusNoContent == 204

Behaviors == {TimeTriggerPeriodic, TimeTriggerImmediate, TimeTriggerNever}
\* Config.Period values tried: negative, zero, positive.
Periods == {-1, 0, 1}
\* Config.RequestSizeTrigger values tried.
Triggers == {1, 3}
\* Sizes, in buffered volume, of one framed record.
RecSizes == {1, 2}
\* What a POST can come back with: a transport error, or a status code.
PostResults == {[err |-> TRUE, code |-> 0],
                [err |-> FALSE, code |-> StatusNoContent],
                [err |-> FALSE, code |-> 500]}
NoResult == [err |-> FALSE, code |-> 0]

\* The goroutines of the application that call BufferMessage: one; the
\* ticker goroutine is the other source of flush attempts.
Callers == {"caller"}
TickerThread == "ticker"
\* The goroutines that can run maybeWork: the callers and the ticker goroutine.
Threads == Callers \cup {TickerThread}

VARIABLES
  cfg,          \* the *Config handed to NewClient, until NewClient returns
  phase,        \* "new": NewClient not yet run; "running": it returned a client; "error": it returned an error
  timeTrigger,  \* m.timeTrigger
  trigger,      \* m.RequestSizeTrigger
  concurrency,  \* cfg.Concurrency as the supply goroutine's closure holds it
  ticker,       \* m.ticker: [made, stopped, pending] (pending: a tick sits in ticker.C, capacity 1)
  nTicks,       \* ticks delivered so far
  finalize,     \* m.finalize is closed
  wg,           \* m.finalizeDone's counter
  gauge,        \* m.Stats.Concurrency
  stats,        \* m.Stats, the counters under statLock
  statLock,     \* m.statLock is held
  buf,          \* the MiniClient's buffer: [n: records framed, bytes: volume]
  supply,       \* the token supply goroutine: [pc, i]
  th,           \* per thread: [pc, n]: position, NumberFramed of its bundle b
  ret,          \* per caller: what its last BufferMessage call returned
  workers,      \* the syncWorker goroutines, a bag of [pc, n, res]
  closer,       \* the goroutine calling Close: its position
  fault,        \* the panic that ended the program, or "none"
  nCalls,       \* BufferMessage calls that got past the closed check
  flushed,      \* history: [recs, batches] swapped out in non-empty bundles
  nPost         \* history: calls of m.c.Post made

vars == <<cfg, phase, timeTrigger, trigger, concurrency, ticker, nTicks, finalize, wg, gauge,
          stats, statLock, buf, supply, th, ret, workers, closer, fault,
          nCalls, flushed, nPost>>

ZeroStats == [Total |-> 0, Dropped |-> 0, Cancelled |-> 0, Rejected |-> 0,
              Successful |-> 0, TotalRequests |-> 0, DroppedRequests |-> 0,
              CancelRequests |-> 0, RejectRequests |-> 0, SuccessRequests |-> 0]
\* The value of cfg once NewClient has returned and its argument is gone.
NoConfig == [TimeTrigger |-> TimeTriggerPeriodic, Period |-> 0,
             Concurrency |-> 0, RequestSizeTrigger |-> 0]
\* The MiniClient's buffer, empty.
EmptyBuffer == [n |-> 0, bytes |-> 0]

\* m.c.BufferMessage: the buffer with one more record framed, of volume sz;
\* the volume is what the call reports as Buffered.
MiniBufferMessage(b, sz) == [n |-> b.n + 1, bytes |-> b.bytes + sz]

NoTicker == [made |-> FALSE, stopped |-> FALSE, pending |-> FALSE]
IdleThread == [pc |-> "idle", n |-> 0]

Configs == [TimeTrigger : Behaviors, Period : Periods,
            Concurrency : 0..MaxConcurrency, RequestSizeTrigger : Triggers]

Init ==
  /\ cfg \in Configs
  /\ phase = "new"
  /\ timeTrigger = TimeTriggerPeriodic
  /\ trigger = 0
  /\ concurrency = 0
  /\ ticker = NoTicker
  /\ nTicks = 0
  /\ finalize = FALSE
  /\ wg = 0
  /\ gauge = 0
  /\ stats = ZeroStats
  /\ statLock = FALSE
  /\ buf = EmptyBuffer
  /\ supply = [pc |-> "none", i |-> 0]
  /\ th = [t \in Threads |-> IdleThread]
  /\ ret = [c \in Callers |-> "none"]
  /\ workers = EmptyBag
  /\ closer = "idle"
  /\ fault = "none"
  /\ nCalls = 0
  /\ flushed = [recs |-> 0, batches |-> 0]
  /\ nPost = 0

\* The program runs: NewClient returned a client and no goroutine has panicked.
Live == phase = "running" /\ fault = "none"

\* ------------------------------------------------------------- NewClient
\* The switch on cfg.TimeTrigger: the configurations it returns an error for.
ConfigError(c) ==
  c.TimeTrigger = TimeTriggerPeriodic /\ c.Period < 0

\* The switch on cfg.TimeTrigger: the m.timeTrigger it sets otherwise.
EffectiveTrigger(c) ==
  IF c.TimeTrigger = TimeTriggerPeriodic
  THEN IF c.Period = 0 THEN TimeTriggerImmediate ELSE TimeTriggerPeriodic
  ELSE c.TimeTrigger

\* NewClient: on a configuration error nothing is started; otherwise the
\* supply goroutine is registered and started, and under the periodic
\* behaviour the ticker is made and its goroutine registered and started.
NewClient ==
  /\ phase = "new"
  /\ LET e == EffectiveTrigger(cfg) IN
     IF ConfigError(cfg)
     THEN /\ phase' = "error"
          /\ UNCHANGED <<timeTrigger, trigger, concurrency, ticker, wg, supply, th>>
     ELSE /\ phase' = "running"
          /\ timeTrigger' = e
          /\ trigger' = cfg.RequestSizeTrigger
          /\ concurrency' = cfg.Concurrency
          /\ supply' = [pc |-> "loop", i |-> 0]
          /\ IF e = TimeTriggerPeriodic
             THEN /\ ticker' = [made |-> TRUE, stopped |-> FALSE, pending |-> FALSE]
                  /\ wg' = wg + 2
                  /\ th' = [th EXCEPT ![TickerThread].pc = "select"]
             ELSE /\ wg' = wg + 1
                  /\ UNCHANGED <<ticker, th>>
  /\ cfg' = NoConfig
  /\ UNCHANGED <<nTicks, finalize, gauge, stats, statLock, buf, ret,
                 workers, closer, fault, nCalls, flushed, nPost>>

\* ------------------------------------------------------------ WaitGroup
\* finalizeDone.Done(): the counter drops by one; the Done that brings it to
\* zero releases the goroutine sleeping in Wait.
WgDone ==
  /\ wg' = wg - 1
  /\ closer' = IF closer = "sleep" /\ wg = 1 THEN "woken" ELSE closer

\* ------------------------------------------------- token supply goroutine
\* The loop condition run one time too many.
SupplyMore_OffByOne(i) == i <= concurrency

\* The loop condition tested after the body: one token whatever the
\* Concurrency.
SupplyMore_DoWhile(i) == i = 0 \/ i < concurrency

\* The loop condition i < cfg.Concurrency.
SupplyMore(i) == i < concurrency

\* One evaluation of the loop condition and entry into the select.  With
\* tokens left to supply the goroutine parks at the send on m.bucket: no
\* receiver ever waits on m.bucket (its only receive is maybeWork's
\* non-blocking one), so the send never completes at once.  With m.finalize
\* closed already, or the loop over, it returns through the deferred
\* m.finalizeDone.Done().
SupplyLoop ==
  /\ Live
  /\ supply.pc = "loop"
  /\ IF SupplyMore(supply.i) /\ ~finalize
     THEN /\ supply' = [supply EXCEPT !.pc = "send"]
          /\ UNCHANGED <<wg, closer>>
     ELSE /\ supply' = [supply EXCEPT !.pc = "done"]
          /\ WgDone
  /\ UNCHANGED <<cfg, phase, timeTrigger, trigger, concurrency, ticker, nTicks,
                 finalize, gauge, stats, statLock, buf, th, ret, workers, fault,
                 nCalls, flushed, nPost>>

\* Parked in the select, the goroutine is woken by the close of m.finalize
\* and returns through the deferred Done.
SupplyWake ==
  /\ Live
  /\ supply.pc = "send"
  /\ finalize
  /\ supply' = [supply EXCEPT !.pc = "done"]
  /\ WgDone
  /\ UNCHANGED <<cfg, phase, timeTrigger, trigger, concurrency, ticker, nTicks,
                 finalize, gauge, stats, statLock, buf, th, ret, workers, fault,
                 nCalls, flushed, nPost>>

\* ------------------------------------------------------------ statistics
\* statReqTotalUnsync
statReqTotalUnsync(s, n) ==
  [s EXCEPT !.Total = @ + n, !.TotalRequests = @ + 1]

\* syncWorker leaving a transport error out of the statistics.
statReqErr_NotCounted(s, n) == s

\* The category part of statReqSuccess, statReqErr, statReqRej, statReqDrop.
statReqSuccess(s, n) == [s EXCEPT !.Successful = @ + n, !.SuccessRequests = @ + 1]
statReqErr(s, n) == [s EXCEPT !.Cancelled = @ + n, !.CancelRequests = @ + 1]
statReqRej(s, n) == [s EXCEPT !.Rejected = @ + n, !.RejectRequests = @ + 1]
statReqDrop(s, n) == [s EXCEPT !.Dropped = @ + n, !.DroppedRequests = @ + 1]

\* syncWorker counting every response that came without an error as a
\* success, whatever its status.
Accrue_AnyStatusSucceeds(s, n, res) ==
  IF res.err THEN statReqErr(s, n) ELSE statReqSuccess(s, n)

\* syncWorker's choice of the statistic for what Post returned.
Accrue(s, n, res) ==
  IF res.err THEN statReqErr(s, n)
  ELSE IF res.code # StatusNoContent THEN statReqRej(s, n)
  ELSE statReqSuccess(s, n)

\* Statistics() reading m.Stats without taking statLock.
StatisticsMayLock_NoLock == TRUE

\* Whether Statistics() can take statLock now.
StatisticsMayLock == ~statLock

\* The copy of m.Stats that Statistics() returns when it runs now.  The copy
\* holds the gauge too, read without the atomic it is written with.
Snapshot == [s |-> stats, Concurrency |-> gauge]

\* Statistics(): lock, copy m.Stats, unlock.  The client is left as it was;
\* the caller gets Snapshot.
Statistics ==
  /\ Live
  /\ StatisticsMayLock
  /\ UNCHANGED <<cfg, phase, timeTrigger, trigger, concurrency, ticker, nTicks, finalize, wg,
                 gauge, stats, statLock, buf, supply, th, ret, workers, closer,
                 fault, nCalls, flushed, nPost>>

\* --------------------------------------------------------------- workers
\* The bag of workers with worker w replaced by v.
Replace(w, v) == (workers (-) SetToBag({w})) (+) SetToBag({v})

\* A worker that sends its token before its call of Post has returned.
Offering_Early(w) == w.pc \in {"post", "send"}

\* The worker is parked at the send on m.bucket in its deferred select.
Offering(w) == w.pc = "send"

\* A sender parked at the send on m.bucket can be received from until
\* m.finalize is closed: the close wins the parked select, and a receive
\* that comes later finds no sender.
CanReceive == ~finalize

\* ------------------------------------------------------------- maybeWork
\* atomic.AddInt32(&m.Stats.Concurrency, 1)
MwInc(t) ==
  /\ Live
  /\ th[t].pc = "mw_inc"
  /\ gauge' = gauge + 1
  /\ th' = [th EXCEPT ![t].pc = "mw_swap"]
  /\ UNCHANGED <<cfg, phase, timeTrigger, trigger, concurrency, ticker, nTicks, finalize, wg,
                 stats, statLock, buf, supply, ret, workers, closer, fault,
                 nCalls, flushed, nPost>>

\* maybeWork without its return on an empty bundle.
MwSwap_NoEmptyCheck(t) ==
  /\ Live
  /\ th[t].pc = "mw_swap"
  /\ buf' = EmptyBuffer
  /\ th' = [th EXCEPT ![t].n = buf.n, ![t].pc = "mw_select"]
  /\ flushed' = IF buf.n <= 0 THEN flushed
                ELSE [recs |-> flushed.recs + buf.n, batches |-> flushed.batches + 1]
  /\ UNCHANGED <<cfg, phase, timeTrigger, trigger, concurrency, ticker, nTicks, finalize, wg,
                 gauge, stats, statLock, supply, ret, workers, closer, fault,
                 nCalls, nPost>>

\* b := m.c.SwapBundle(), which hands the buffer over and leaves an empty
\* one, and the return on b.NumberFramed <= 0.
MwSwap(t) ==
  /\ Live
  /\ th[t].pc = "mw_swap"
  /\ buf' = EmptyBuffer
  /\ th' = [th EXCEPT ![t].n = buf.n,
                      ![t].pc = IF buf.n <= 0 THEN "mw_dec" ELSE "mw_select"]
  /\ flushed' = IF buf.n <= 0 THEN flushed
                ELSE [recs |-> flushed.recs + buf.n, batches |-> flushed.batches + 1]
  /\ UNCHANGED <<cfg, phase, timeTrigger, trigger, concurrency, ticker, nTicks, finalize, wg,
                 gauge, stats, statLock, supply, ret, workers, closer, fault,
                 nCalls, nPost>>

\* The select on m.bucket with a default: a token is received from a sender
\* parked on m.bucket (the supply goroutine, or a worker handing its token
\* back), or, with none to receive from, the default case is taken.
MwSelect(t) ==
  /\ Live
  /\ th[t].pc = "mw_select"
  /\ \/ /\ CanReceive
        /\ supply.pc = "send"
        /\ th' = [th EXCEPT ![t].pc = "mw_spawn"]
        /\ supply' = [pc |-> "loop", i |-> supply.i + 1]
        /\ UNCHANGED workers
     \/ /\ CanReceive
        /\ \E w \in BagToSet(workers) :
             /\ Offering(w)
             /\ th' = [th EXCEPT ![t].pc = "mw_spawn"]
             /\ workers' = Replace(w, [w EXCEPT !.pc = "exit"])
        /\ UNCHANGED supply
     \/ /\ ~(CanReceive /\ (supply.pc = "send"
                            \/ \E w \in BagToSet(workers) : Offering(w)))
        /\ th' = [th EXCEPT ![t].pc = "mw_drop"]
        /\ UNCHANGED <<supply, workers>>
  /\ UNCHANGED <<cfg, phase, timeTrigger, trigger, concurrency, ticker, nTicks, finalize, wg,
                 gauge, stats, statLock, buf, ret, closer, fault,
                 nCalls, flushed, nPost>>

\* m.finalizeDone.Add(1); go m.syncWorker(&b).  The worker starts in its
\* call of m.c.Post.
MwSpawn(t) ==
  /\ Live
  /\ th[t].pc = "mw_spawn"
  /\ wg' = wg + 1
  /\ workers' = workers (+) SetToBag({[pc |-> "post", n |-> th[t].n, res |-> NoResult]})
  /\ nPost' = nPost + 1
  /\ th' = [th EXCEPT ![t].pc = "mw_dec"]
  /\ UNCHANGED <<cfg, phase, timeTrigger, trigger, concurrency, ticker, nTicks, finalize,
                 gauge, stats, statLock, buf, supply, ret, closer, fault,
                 nCalls, flushed>>

\* statReqDrop, first half: statLock.Lock() and statReqTotalUnsync.
MwDropLock(t) ==
  /\ Live
  /\ th[t].pc = "mw_drop"
  /\ ~statLock
  /\ statLock' = TRUE
  /\ stats' = statReqTotalUnsync(stats, th[t].n)
  /\ th' = [th EXCEPT ![t].pc = "mw_drop2"]
  /\ UNCHANGED <<cfg, phase, timeTrigger, trigger, concurrency, ticker, nTicks, finalize, wg,
                 gauge, buf, supply, ret, workers, closer, fault,
                 nCalls, flushed, nPost>>

\* statReqDrop, second half: the drop counters and the deferred Unlock;
\* runtime.Gosched() changes nothing.
MwDropCount(t) ==
  /\ Live
  /\ th[t].pc = "mw_drop2"
  /\ statLock' = FALSE
  /\ stats' = statReqDrop(stats, th[t].n)
  /\ th' = [th EXCEPT ![t].pc = "mw_dec"]
  /\ UNCHANGED <<cfg, phase, timeTrigger, trigger, concurrency, ticker, nTicks, finalize, wg,
                 gauge, buf, supply, ret, workers, closer, fault,
                 nCalls, flushed, nPost>>

\* maybeWork returning to a ticker goroutine without its for loop: the
\* goroutine returns after its first flush attempt.
MwDec_TickerReturns(t) ==
  /\ Live
  /\ th[t].pc = "mw_dec"
  /\ gauge' = gauge - 1
  /\ th' = [th EXCEPT ![t] = [pc |-> IF t = TickerThread THEN "done" ELSE "idle",
                              n |-> 0]]
  /\ ret' = IF t \in Callers THEN [ret EXCEPT ![t] = "nil"] ELSE ret
  /\ IF t = TickerThread THEN WgDone ELSE UNCHANGED <<wg, closer>>
  /\ UNCHANGED <<cfg, phase, timeTrigger, trigger, concurrency, ticker, nTicks, finalize,
                 stats, statLock, buf, supply, workers, fault,
                 nCalls, flushed, nPost>>

\* The deferred atomic.AddInt32(&m.Stats.Concurrency, -1) and the return:
\* to BufferMessage, which returns nil, or to the ticker goroutine's loop.
MwDec(t) ==
  /\ Live
  /\ th[t].pc = "mw_dec"
  /\ gauge' = gauge - 1
  /\ th' = [th EXCEPT ![t] = [pc |-> IF t = TickerThread THEN "select" ELSE "idle",
                              n |-> 0]]
  /\ ret' = IF t \in Callers THEN [ret EXCEPT ![t] = "nil"] ELSE ret
  /\ UNCHANGED <<cfg, phase, timeTrigger, trigger, concurrency, ticker, nTicks, finalize, wg,
                 stats, statLock, buf, supply, workers, closer, fault,
                 nCalls, flushed, nPost>>

\* --------------------------------------------------------- BufferMessage
\* BufferMessage without its closed check.
BufferMessageOpen_NoCheck == TRUE

\* The select on m.finalize with a default: whether the call goes on.
BufferMessageOpen == ~finalize

\* BufferMessage's closed check: the error is returned, or the call goes on.
BmCheck(c) ==
  /\ Live
  /\ th[c].pc = "idle"
  /\ IF BufferMessageOpen
     THEN /\ nCalls < MaxMsgs
          /\ nCalls' = nCalls + 1
          /\ th' = [th EXCEPT ![c].pc = "buffer"]
          /\ ret' = [ret EXCEPT ![c] = "none"]
     ELSE /\ ret' = [ret EXCEPT ![c] = "closed"]
          /\ UNCHANGED <<th, nCalls>>
  /\ UNCHANGED <<cfg, phase, timeTrigger, trigger, concurrency, ticker, nTicks, finalize, wg,
                 gauge, stats, statLock, buf, supply, workers, closer, fault,
                 flushed, nPost>>

\* The size trigger met only by a volume above RequestSizeTrigger.
ShouldWork_Above(buffered) ==
  buffered > trigger \/ timeTrigger = TimeTriggerImmediate

\* The condition under which BufferMessage calls maybeWork.
ShouldWork(buffered) ==
  buffered >= trigger \/ timeTrigger = TimeTriggerImmediate

\* s := m.c.BufferMessage(...): the record is framed into the buffer and the
\* buffered volume reported; then maybeWork is called, or nil returned.
BmBuffer(c) ==
  /\ Live
  /\ th[c].pc = "buffer"
  /\ \E sz \in RecSizes :
       /\ buf' = MiniBufferMessage(buf, sz)
       /\ IF ShouldWork(MiniBufferMessage(buf, sz).bytes)
          THEN /\ th' = [th EXCEPT ![c].pc = "mw_inc"]
               /\ UNCHANGED ret
          ELSE /\ th' = [th EXCEPT ![c].pc = "idle"]
               /\ ret' = [ret EXCEPT ![c] = "nil"]
  /\ UNCHANGED <<cfg, phase, timeTrigger, trigger, concurrency, ticker, nTicks, finalize, wg,
                 gauge, stats, statLock, supply, workers, closer, fault,
                 nCalls, flushed, nPost>>

\* ------------------------------------------------------ ticker goroutine
\* The runtime delivers a tick into ticker.C, a channel of capacity one, as
\* long as the ticker is not stopped; a tick that finds the channel full is
\* discarded.
Tick ==
  /\ Live
  /\ ticker.made /\ ~ticker.stopped /\ ~ticker.pending
  /\ nTicks < MaxTicks
  /\ ticker' = [ticker EXCEPT !.pending = TRUE]
  /\ nTicks' = nTicks + 1
  /\ UNCHANGED <<cfg, phase, timeTrigger, trigger, concurrency, finalize, wg, gauge, stats,
                 statLock, buf, supply, th, ret, workers, closer, fault,
                 nCalls, flushed, nPost>>

\* The select of the ticker goroutine: a tick is taken and maybeWork called,
\* or the closed m.finalize makes it return through the deferred
\* m.finalizeDone.Done(); with both ready either happens.
TickerSelect ==
  /\ Live
  /\ th[TickerThread].pc = "select"
  /\ \/ /\ ticker.pending
        /\ ticker' = [ticker EXCEPT !.pending = FALSE]
        /\ th' = [th EXCEPT ![TickerThread].pc = "mw_inc"]
        /\ UNCHANGED <<wg, closer>>
     \/ /\ finalize
        /\ th' = [th EXCEPT ![TickerThread].pc = "done"]
        /\ WgDone
        /\ UNCHANGED ticker
  /\ UNCHANGED <<cfg, phase, timeTrigger, trigger, concurrency, nTicks, finalize,
                 gauge, stats, statLock, buf, supply, ret, workers, fault,
                 nCalls, flushed, nPost>>

\* ------------------------------------------------------------ syncWorker
\* resp, err := m.c.Post(b) returns.
WorkerPost(w) ==
  /\ Live
  /\ w.pc = "post"
  /\ \E r \in PostResults : workers' = Replace(w, [w EXCEPT !.pc = "stat", !.res = r])
  /\ UNCHANGED <<cfg, phase, timeTrigger, trigger, concurrency, ticker, nTicks, finalize, wg,
                 gauge, stats, statLock, buf, supply, th, ret, closer, fault,
                 nCalls, flushed, nPost>>

\* statReqErr, statReqRej or statReqSuccess, first half: statLock.Lock() and
\* statReqTotalUnsync.
WorkerStatLock(w) ==
  /\ Live
  /\ w.pc = "stat"
  /\ ~statLock
  /\ statLock' = TRUE
  /\ stats' = statReqTotalUnsync(stats, w.n)
  /\ workers' = Replace(w, [w EXCEPT !.pc = "stat2"])
  /\ UNCHANGED <<cfg, phase, timeTrigger, trigger, concurrency, ticker, nTicks, finalize, wg,
                 gauge, buf, supply, th, ret, closer, fault,
                 nCalls, flushed, nPost>>

\* The token handed back at the end of the function body instead of in a
\* deferred call: the return on a transport error skips it.
AfterCount_ErrSkipsCleanup(res) == IF res.err THEN "exit" ELSE "defer"

\* Where a worker goes once its outcome is counted: every path, the return
\* on a transport error included, runs the deferred select.
AfterCount(res) == "defer"

\* Second half: the counters of the outcome and the deferred Unlock.  The
\* bundle and the response are not used after this.
WorkerStatCount(w) ==
  /\ Live
  /\ w.pc = "stat2"
  /\ statLock' = FALSE
  /\ stats' = Accrue(stats, w.n, w.res)
  /\ workers' = Replace(w, [w EXCEPT !.pc = AfterCount(w.res), !.n = 0, !.res = NoResult])
  /\ UNCHANGED <<cfg, phase, timeTrigger, trigger, concurrency, ticker, nTicks, finalize, wg,
                 gauge, buf, supply, th, ret, closer, fault,
                 nCalls, flushed, nPost>>

\* The deferred select: the worker parks at the send on m.bucket, offering
\* its token; with m.finalize closed already it gives the token up and is
\* gone through the deferred m.finalizeDone.Done().
WorkerSelect(w) ==
  /\ Live
  /\ w.pc = "defer"
  /\ IF finalize
     THEN /\ workers' = workers (-) SetToBag({w})
          /\ WgDone
     ELSE /\ workers' = Replace(w, [w EXCEPT !.pc = "send"])
          /\ UNCHANGED <<wg, closer>>
  /\ UNCHANGED <<cfg, phase, timeTrigger, trigger, concurrency, ticker, nTicks,
                 finalize, gauge, stats, statLock, buf, supply, th, ret, fault,
                 nCalls, flushed, nPost>>

\* Parked in the select, the worker is woken by the close of m.finalize,
\* gives its token up and is gone through the deferred Done.
WorkerWake(w) ==
  /\ Live
  /\ w.pc = "send"
  /\ finalize
  /\ workers' = workers (-) SetToBag({w})
  /\ WgDone
  /\ UNCHANGED <<cfg, phase, timeTrigger, trigger, concurrency, ticker, nTicks,
                 finalize, gauge, stats, statLock, buf, supply, th, ret, fault,
                 nCalls, flushed, nPost>>

\* Its token received by a maybeWork, the worker is gone through the
\* deferred m.finalizeDone.Done().
WorkerDone(w) ==
  /\ Live
  /\ w.pc = "exit"
  /\ workers' = workers (-) SetToBag({w})
  /\ WgDone
  /\ UNCHANGED <<cfg, phase, timeTrigger, trigger, concurrency, ticker, nTicks,
                 finalize, gauge, stats, statLock, buf, supply, th, ret, fault,
                 nCalls, flushed, nPost>>

\* ----------------------------------------------------------------- Close
\* m.ticker.Stop(): on a client without a ticker m.ticker is nil and the
\* call panics.
CloseStop ==
  /\ Live
  /\ closer = "idle"
  /\ IF ticker.made
     THEN /\ ticker' = [ticker EXCEPT !.stopped = TRUE]
          /\ closer' = "close"
          /\ UNCHANGED fault
     ELSE /\ fault' = "nil ticker"
          /\ closer' = "panic"
          /\ UNCHANGED ticker
  /\ UNCHANGED <<cfg, phase, timeTrigger, trigger, concurrency, nTicks, finalize, wg, gauge,
                 stats, statLock, buf, supply, th, ret, workers,
                 nCalls, flushed, nPost>>

\* A Close that flushes what is buffered before it closes m.finalize, and
\* counts it as dropped.
CloseFinalize_Flushes ==
  /\ Live
  /\ closer = "close"
  /\ ~statLock
  /\ finalize' = TRUE
  /\ closer' = "wait"
  /\ buf' = EmptyBuffer
  /\ stats' = IF buf.n <= 0 THEN stats
              ELSE statReqDrop(statReqTotalUnsync(stats, buf.n), buf.n)
  /\ flushed' = IF buf.n <= 0 THEN flushed
                ELSE [recs |-> flushed.recs + buf.n, batches |-> flushed.batches + 1]
  /\ UNCHANGED <<cfg, phase, timeTrigger, trigger, concurrency, ticker, nTicks, wg, gauge,
                 statLock, supply, th, ret, workers, fault, nCalls, nPost>>

\* close(m.finalize)
CloseFinalize ==
  /\ Live
  /\ closer = "close"
  /\ finalize' = TRUE
  /\ closer' = "wait"
  /\ UNCHANGED <<cfg, phase, timeTrigger, trigger, concurrency, ticker, nTicks, wg, gauge,
                 stats, statLock, buf, supply, th, ret, workers, fault,
                 nCalls, flushed, nPost>>

\* m.finalizeDone.Wait(): with the counter at zero it returns, otherwise the
\* caller sleeps until a Done brings the counter to zero.
CloseWait ==
  /\ Live
  /\ closer = "wait"
  /\ closer' = IF wg = 0 THEN "closed" ELSE "sleep"
  /\ UNCHANGED <<cfg, phase, timeTrigger, trigger, concurrency, ticker, nTicks, finalize, wg,
                 gauge, stats, statLock, buf, supply, th, ret, workers, fault,
                 nCalls, flushed, nPost>>

\* Wait, released, returns.  An Add that has raised the counter since the
\* release broke the rule of sync.WaitGroup that an Add from zero happens
\* before the Wait; depending on the runtime Wait then returns all the same
\* or panics ("WaitGroup is reused before previous Wait has returned").
CloseWoken ==
  /\ Live
  /\ closer = "woken"
  /\ \/ closer' = "closed" /\ UNCHANGED fault
     \/ wg # 0 /\ closer' = "panic" /\ fault' = "WaitGroup reused"
  /\ UNCHANGED <<cfg, phase, timeTrigger, trigger, concurrency, ticker, nTicks, finalize, wg,
                 gauge, stats, statLock, buf, supply, th, ret, workers,
                 nCalls, flushed, nPost>>

\* ------------------------------------------------------------------ Next
Next ==
  \/ NewClient
  \/ SupplyLoop
  \/ SupplyWake
  \/ Statistics
  \/ \E t \in Threads : MwInc(t)
  \/ \E t \in Threads : MwSwap(t)
  \/ \E t \in Threads : MwSelect(t)
  \/ \E t \in Threads : MwSpawn(t)
  \/ \E t \in Threads : MwDropLock(t)
  \/ \E t \in Threads : MwDropCount(t)
  \/ \E t \in Threads : MwDec(t)
  \/ \E c \in Callers : BmCheck(c)
  \/ \E c \in Callers : BmBuffer(c)
  \/ Tick
  \/ TickerSelect
  \/ \E w \in BagToSet(workers) : WorkerPost(w)
  \/ \E w \in BagToSet(workers) : WorkerStatLock(w)
  \/ \E w \in BagToSet(workers) : WorkerStatCount(w)
  \/ \E w \in BagToSet(workers) : WorkerSelect(w)
  \/ \E w \in BagToSet(workers) : WorkerWake(w)
  \/ \E w \in BagToSet(workers) : WorkerDone(w)
  \/ CloseStop
  \/ CloseFinalize
  \/ CloseWait
  \/ CloseWoken

Spec == Init /\ [][Next]_vars

\* Every goroutine that can take a step of the program eventually takes one,
\* and every call of Post returns.  When the application calls BufferMessage
\* or Close, and when the ticker ticks, is left open.
Fairness ==
  /\ WF_vars(NewClient)
  /\ WF_vars(SupplyLoop \/ SupplyWake)
  /\ \A t \in Threads :
       WF_vars(MwInc(t) \/ MwSwap(t) \/ MwSelect(t) \/ MwSpawn(t)
               \/ MwDropLock(t) \/ MwDropCount(t) \/ MwDec(t))
  /\ \A c \in Callers : WF_vars(BmBuffer(c))
  /\ WF_vars(TickerSelect)
  /\ WF_vars(\E w \in BagToSet(workers) :
               WorkerPost(w) \/ WorkerStatLock(w) \/ WorkerStatCount(w)
               \/ WorkerSelect(w) \/ WorkerWake(w) \/ WorkerDone(w))
  /\ WF_vars(CloseFinalize \/ CloseWait \/ CloseWoken)

FairSpec == Spec /\ Fairness

\* ------------------------------------------------------------ measures
\* The number of workers whose position is one of pcs.
WorkersAt(pcs) ==
  LET S == {w \in BagToSet(workers) : w.pc \in pcs}
  IN  BagCardinality([w \in S |-> CopiesIn(w, workers)])

\* The number of threads whose position is one of pcs.
ThreadsAt(pcs) == Cardinality({t \in Threads : th[t].pc \in pcs})

\* Tokens in the hands of a task: of a worker from its start until its token
\* is received back or given up, and of a maybeWork between its receive and
\* the start of the worker.
TokensHeld ==
  WorkersAt({"post", "stat", "stat2", "defer", "send"}) + ThreadsAt({"mw_spawn"})

\* The token the supply goroutine is offering.
TokensOffered == IF supply.pc = "send" THEN 1 ELSE 0

\* Calls of m.c.Post that have not returned.
PostsInProgress == WorkersAt({"post"})

\* The two identities of a Stats value.
Balanced(s) ==
  /\ s.Successful + s.Rejected + s.Cancelled + s.Dropped = s.Total
  /\ s.SuccessRequests + s.RejectRequests + s.CancelRequests + s.DroppedRequests
       = s.TotalRequests

\* --------------------------------------------------------------- claims

\* C1: the admission tokens in circulation (held by a task, or offered by the
\* supply goroutine) never exceed the configured Concurrency; every token
\* handed out by the supply goroutine is held by at most one task (by exactly
\* one until shutdown lets tokens be given up); so at most Concurrency Post
\* calls are in progress at once.
C1_TokensBounded ==
  /\ TokensHeld + TokensOffered <= concurrency
  /\ TokensHeld <= supply.i
  /\ ~finalize => TokensHeld = supply.i
  /\ PostsInProgress <= concurrency

\* C1 witness: every token of a client with two is held by a worker inside
\* Post.
C1_Witness ==
  /\ Live /\ concurrency >= 2
  /\ PostsInProgress = concurrency

\* C2: whatever Statistics() returns, at any moment it can run, balances:
\* the four categories add up to the total, for messages and for requests.
C2_SnapshotBalanced ==
  (Live /\ StatisticsMayLock) => Balanced(Snapshot.s)

\* C2 witness: Statistics() can run, with counts to report, while a worker
\* waits to account its request.
C2_Witness ==
  /\ Live /\ StatisticsMayLock
  /\ Snapshot.s.Total > 0
  /\ WorkersAt({"stat"}) > 0

\* C3: the gauge Stats.Concurrency stays between zero and the configured
\* Concurrency (stated for clients with a Concurrency of one or more).
C3_GaugeWithinCapacity ==
  (Live /\ concurrency >= 1) => (gauge >= 0 /\ gauge <= concurrency)

\* C4: once Close() has returned, the supply goroutine, the ticker goroutine
\* and every worker are gone, and no worker is about to be started.
C4_NoTaskAfterClose ==
  closer = "closed" =>
    /\ supply.pc = "done"
    /\ th[TickerThread].pc = "done"
    /\ workers = EmptyBag

\* C5: a BufferMessage call that begins with m.finalize closed returns the
\* closed-client error and changes nothing else: no record is buffered, no
\* flush attempt runs, the statistics and the token pool stay as they are.
C5_ClosedCallRejected ==
  [][\A c \in Callers :
       (finalize /\ th[c].pc = "idle") =>
         /\ th'[c].pc = "idle"
         /\ \/ ret'[c] = ret[c]
            \/ /\ ret'[c] = "closed"
               /\ UNCHANGED <<buf, stats, statLock, gauge, supply, workers, wg,
                              th, nCalls, flushed, nPost, ticker, closer>>]_vars

\* C5 witness: a call was answered with the closed-client error while a
\* record sat in the buffer.
C5_Witness ==
  /\ finalize
  /\ \E c \in Callers : ret[c] = "closed"
  /\ buf.n > 0

\* C6: on a client of the periodic behaviour, a Close() that has stopped the
\* ticker eventually returns.
C6_CloseReturns ==
  (phase = "running" /\ timeTrigger = TimeTriggerPeriodic
     /\ closer \in {"close", "wait", "sleep", "woken"})
    ~> (closer = "closed")

\* C7: on a client without a ticker (behaviour Immediate or Never), Close()
\* does not fault: once begun it is at one of its steps or has returned.
C7_CloseWithoutTicker ==
  (phase = "running" /\ ~ticker.made /\ closer # "idle") =>
    /\ fault = "none"
    /\ closer \in {"close", "wait", "sleep", "woken", "closed"}

\* All tokens are held by workers whose call of Post has not returned.
Saturated == PostsInProgress = concurrency

\* C8: with every token held by a worker inside Post, maybeWork's select
\* takes the default case; from there on the flush attempt starts no worker,
\* adds the bundle to the totals and to the drop counters exactly once
\* (messages by its record count, requests by one), and lets BufferMessage
\* return nil.
C8_SaturationSheds ==
  [][\A t \in Threads :
       /\ (th[t].pc = "mw_select" /\ Saturated /\ th'[t] # th[t])
            => (th'[t].pc = "mw_drop" /\ UNCHANGED <<stats, workers, wg, nPost>>)
       /\ (th[t].pc = "mw_drop" /\ th'[t] # th[t])
            => /\ th'[t].pc = "mw_drop2"
               /\ stats' = [stats EXCEPT !.Total = @ + th[t].n,
                                         !.TotalRequests = @ + 1]
               /\ UNCHANGED <<workers, wg, nPost>>
       /\ (th[t].pc = "mw_drop2" /\ th'[t] # th[t])
            => /\ th'[t].pc = "mw_dec"
               /\ stats' = [stats EXCEPT !.Dropped = @ + th[t].n,
                                         !.DroppedRequests = @ + 1]
               /\ UNCHANGED <<workers, wg, nPost>>
       /\ (th[t].pc = "mw_dec" /\ th'[t] # th[t] /\ t \in Callers)
            => (th'[t].pc = "idle" /\ ret'[t] = "nil")]_vars

\* C8 witness: a client with tokens, all of them held by workers inside
\* Post, and a flush attempt that has taken the default case and is in the
\* middle of recording its drop.
C8_Witness ==
  /\ Live /\ concurrency >= 1 /\ Saturated
  /\ \E t \in Threads : th[t].pc = "mw_drop2"

\* Scenario A: Concurrency 1, RequestSizeTrigger 1, behaviour Never, Close
\* not called.
ScenarioA ==
  /\ Live /\ closer = "idle"
  /\ concurrency = 1 /\ trigger = 1 /\ timeTrigger = TimeTriggerNever

\* No delivery is in flight or unaccounted.
DeliveriesSettled == WorkersAt({"post", "stat", "stat2"}) = 0

\* C9: in scenario A, once the one BufferMessage call has returned, exactly
\* one delivery has been attempted and nothing dropped; with the delivery
\* settled and neither cancelled nor rejected, the statistics show one
\* successful message in one successful request and nothing else.
C9_ScenarioA ==
  (ScenarioA /\ nCalls = 1 /\ \A c \in Callers : ret[c] = "nil") =>
    /\ nPost = 1
    /\ stats.Dropped = 0 /\ stats.DroppedRequests = 0
    /\ (DeliveriesSettled /\ stats.CancelRequests = 0 /\ stats.RejectRequests = 0)
         => stats = [ZeroStats EXCEPT !.Total = 1, !.Successful = 1,
                                      !.TotalRequests = 1, !.SuccessRequests = 1]

\* Records and bundles swapped out non-empty that no counter holds yet: in
\* the hands of a maybeWork, or of a worker that has not taken statLock.
PendingRecs(thPcs, wPcs) ==
  LET T == {t \in Threads : th[t].pc \in thPcs}
      S == {w \in BagToSet(workers) : w.pc \in wPcs}
      sumT[X \in SUBSET T] ==
        IF X = {} THEN 0
        ELSE LET x == CHOOSE y \in X : TRUE IN th[x].n + sumT[X \ {x}]
      sumW[X \in SUBSET S] ==
        IF X = {} THEN 0
        ELSE LET x == CHOOSE y \in X : TRUE
             IN x.n * CopiesIn(x, workers) + sumW[X \ {x}]
  IN  sumT[T] + sumW[S]

\* C10: every non-empty bundle swapped out is dropped or handed to exactly
\* one worker, and is counted once in the totals and once in one category:
\* at any time the totals plus what is still to be counted equal what was
\* swapped out, and so do the four categories together; with no flush
\* attempt and no delivery in progress Total is the number of records, and
\* TotalRequests the number of bundles, swapped out non-empty.
C10_ExactlyOnce ==
  /\ stats.Total + PendingRecs({"mw_select", "mw_spawn", "mw_drop"}, {"post", "stat"})
       = flushed.recs
  /\ stats.TotalRequests + ThreadsAt({"mw_select", "mw_spawn", "mw_drop"})
       + WorkersAt({"post", "stat"}) = flushed.batches
  /\ stats.Dropped + stats.Cancelled + stats.Rejected + stats.Successful
       + PendingRecs({"mw_select", "mw_spawn", "mw_drop", "mw_drop2"},
                     {"post", "stat", "stat2"}) = flushed.recs
  /\ stats.DroppedRequests + stats.CancelRequests + stats.RejectRequests
       + stats.SuccessRequests
       + ThreadsAt({"mw_select", "mw_spawn", "mw_drop", "mw_drop2"})
       + WorkersAt({"post", "stat", "stat2"}) = flushed.batches
  /\ stats.DroppedRequests + nPost
       + ThreadsAt({"mw_select", "mw_spawn", "mw_drop", "mw_drop2"})
       = flushed.batches

\* C10 witness: Close() has returned on a client at rest that swapped out
\* two bundles, one of them dropped and one delivered with a transport error.
C10_Witness ==
  /\ closer = "closed"
  /\ ThreadsAt({"mw_select", "mw_spawn", "mw_drop", "mw_drop2"}) = 0
  /\ workers = EmptyBag
  /\ flushed.batches = 2
  /\ stats.DroppedRequests = 1 /\ stats.CancelRequests = 1
  /\ stats.TotalRequests = 2

\* C11: NewClient on a configuration with a negative Period, whatever its
\* TimeTrigger, returns an error and starts neither the supply goroutine nor
\* the ticker goroutine; on a zero Period under the periodic behaviour it
\* returns a client whose m.timeTrigger is Immediate and which has no ticker.
C11_NegativePeriodRejected ==
  [][/\ (phase = "new" /\ cfg.Period < 0) =>
          /\ phase' = "error"
          /\ supply'.pc = "none"
          /\ th'[TickerThread].pc = "idle"
          /\ wg' = 0
     /\ (phase = "new" /\ cfg.TimeTrigger = TimeTriggerPeriodic /\ cfg.Period = 0) =>
          /\ phase' = "running"
          /\ timeTrigger' = TimeTriggerImmediate
          /\ ~ticker'.made
          /\ th'[TickerThread].pc = "idle"]_vars

\* The positions of a worker between the return of Post and its deferred
\* select.
PastPost == {"stat", "stat2", "defer"}

\* The goroutines registered with m.finalizeDone that have not called Done.
Registered ==
  BagCardinality(workers)
    + (IF supply.pc \in {"loop", "send"} THEN 1 ELSE 0)
    + (IF th[TickerThread].pc \notin {"idle", "done"} THEN 1 ELSE 0)

\* C12: a worker whose Post has returned, whatever it returned, offers its
\* token on m.bucket when it leaves, unless m.finalize is closed; the
\* counter of m.finalizeDone is the number of goroutines started and not yet
\* done, so each worker's Done is counted once; and under fair scheduling
\* every worker whose Post has returned gets to its deferred select, unless
\* Close() has been called.
C12_TokenReturned ==
  /\ [][WorkersAt(PastPost)' < WorkersAt(PastPost) =>
          \/ finalize
          \/ WorkersAt({"send"})' = WorkersAt({"send"}) + 1]_vars
  /\ [](phase = "running" => wg = Registered)
  /\ (WorkersAt(PastPost) > 0) ~> (WorkersAt(PastPost) = 0 \/ closer # "idle")

\* C12 witness: with no Close() called, a worker whose Post came back with a
\* transport error is parked offering its token while another worker's Post
\* has returned.
C12_Witness ==
  /\ closer = "idle"
  /\ stats.CancelRequests = 1
  /\ WorkersAt({"send"}) = 1
  /\ WorkersAt(PastPost) = 1

\* C13: with m.finalize open and Concurrency >= 1, a flush attempt on a
\* non-empty bundle takes the drop path only when Concurrency workers are
\* inside their call of Post.
C13_DropOnlyWhenSaturated ==
  [][(/\ ~finalize
      /\ concurrency >= 1
      /\ \E t \in Threads : th[t].pc = "mw_select" /\ th'[t].pc = "mw_drop")
       => PostsInProgress = concurrency]_vars

\* C14: a BufferMessage call that got past the closed check frames its
\* record and then calls maybeWork exactly when the volume buffered is at
\* least RequestSizeTrigger or m.timeTrigger is Immediate, and returns nil
\* otherwise; under Never nothing else ever calls maybeWork.
C14_FlushTriggers ==
  [][/\ \A c \in Callers :
          (th[c].pc = "buffer" /\ th'[c].pc # "buffer") =>
            /\ buf'.n = buf.n + 1
            /\ (th'[c].pc = "mw_inc")
                 <=> (buf'.bytes >= trigger \/ timeTrigger = TimeTriggerImmediate)
            /\ th'[c].pc # "mw_inc" => (th'[c].pc = "idle" /\ ret'[c] = "nil")
     /\ \A t \in Threads :
          (timeTrigger = TimeTriggerNever /\ th[t].pc # "mw_inc" /\ th'[t].pc = "mw_inc") =>
            (t \in Callers /\ th[t].pc = "buffer" /\ buf'.bytes >= trigger)]_vars

\* C14 witness: under Never, a first record stayed below the trigger and
\* was only buffered; the second brought the volume to the trigger exactly
\* and its call is entering maybeWork.
C14_Witness ==
  /\ timeTrigger = TimeTriggerNever
  /\ \E c \in Callers : th[c].pc = "mw_inc"
  /\ buf.n = 2
  /\ buf.bytes = trigger
  /\ flushed.batches = 0

\* C15: the ticker goroutine calls maybeWork once for each tick it takes
\* from ticker.C and for nothing else, whatever is buffered; it returns only
\* from its select with m.finalize closed, and having returned it does
\* nothing more.
C15_TickFlushes ==
  [][/\ (ticker.pending /\ ~ticker'.pending) =>
          (th[TickerThread].pc = "select" /\ th'[TickerThread].pc = "mw_inc")
     /\ (th[TickerThread].pc # "mw_inc" /\ th'[TickerThread].pc = "mw_inc") =>
          (ticker.pending /\ ~ticker'.pending)
     /\ (th[TickerThread].pc # "done" /\ th'[TickerThread].pc = "done") =>
          (th[TickerThread].pc = "select" /\ finalize)
     /\ th[TickerThread].pc = "done" => th'[TickerThread].pc = "done"]_vars

\* C15 witness: RequestSizeTrigger is 3 and no record reached it; the first
\* tick's flush attempt swapped out the one record buffered by then, and the
\* second tick has been taken and its flush attempt begins, with one more
\* record in the buffer.
C15_Witness ==
  /\ timeTrigger = TimeTriggerPeriodic
  /\ trigger = 3
  /\ nTicks = 2
  /\ ~ticker.pending
  /\ th[TickerThread].pc = "mw_inc"
  /\ flushed = [recs |-> 1, batches |-> 1]
  /\ buf.n = 1

\* C16: a maybeWork whose SwapBundle returns a bundle with no record goes
\* straight to its return: the swap and the return change no counter of
\* m.Stats, receive from no sender on m.bucket and start no worker; the
\* return takes from the gauge the one that the entry added.
C16_EmptyBundleNoEffect ==
  [][\A t \in Threads :
       /\ (th[t].pc = "mw_swap" /\ th'[t].pc # "mw_swap" /\ buf.n <= 0) =>
            /\ th'[t].pc = "mw_dec"
            /\ th'[t].n = 0
            /\ gauge >= 1
            /\ UNCHANGED <<stats, statLock, workers, supply, wg, nPost, flushed, gauge>>
       /\ (th[t].pc = "mw_dec" /\ th[t].n = 0 /\ th'[t].pc # "mw_dec") =>
            /\ gauge' = gauge - 1
            /\ UNCHANGED <<stats, statLock, workers, supply, wg, nPost, flushed, buf>>]_vars

\* C16 witness: the flush attempt of a tick found the buffer empty and is at
\* its return, after an earlier bundle was counted.
C16_Witness ==
  /\ th[TickerThread].pc = "mw_dec"
  /\ th[TickerThread].n = 0
  /\ stats.TotalRequests = 1
  /\ gauge = 1

\* C17: a worker counts its bundle by what Post returned alone: its first
\* step under statLock adds the bundle's records to Total and one to
\* TotalRequests; its second adds them to Cancelled/CancelRequests on an
\* error, to Rejected/RejectRequests on a status other than 204, to
\* Successful/SuccessRequests on 204; no other counter changes.
C17_OutcomeClassified ==
  [][/\ WorkersAt({"stat"})' < WorkersAt({"stat"}) =>
          \E w \in BagToSet(workers) :
             /\ w.pc = "stat"
             /\ stats' = [stats EXCEPT !.Total = @ + w.n, !.TotalRequests = @ + 1]
     /\ WorkersAt({"stat2"})' < WorkersAt({"stat2"}) =>
          \E w \in BagToSet(workers) :
             /\ w.pc = "stat2"
             /\ WorkersAt({"stat2"}) = 1
             /\ w.n >= 1
             /\ stats' =
                  IF w.res.err
                  THEN [stats EXCEPT !.Cancelled = @ + w.n, !.CancelRequests = @ + 1]
                  ELSE IF w.res.code = 204
                  THEN [stats EXCEPT !.Successful = @ + w.n, !.SuccessRequests = @ + 1]
                  ELSE [stats EXCEPT !.Rejected = @ + w.n, !.RejectRequests = @ + 1]]_vars

\* C17 witness: two deliveries are counted, one whose Post came back with a
\* status other than 204 and one with 204.
C17_Witness ==
  /\ ~statLock
  /\ stats.RejectRequests = 1 /\ stats.Rejected >= 1
  /\ stats.SuccessRequests = 1 /\ stats.Successful >= 1
  /\ stats.TotalRequests = 2
  /\ nPost = 2

\* C18: NewClient accepts Concurrency 0, and the client it returns never
\* starts a worker and never calls Post: every non-empty bundle swapped out
\* is counted as dropped, or is on maybeWork's way to being so counted.
C18_ZeroConcurrencyDrops ==
  (phase = "running" /\ concurrency = 0) =>
    /\ workers = EmptyBag
    /\ nPost = 0
    /\ supply.pc \in {"loop", "done"}
    /\ ThreadsAt({"mw_spawn"}) = 0
    /\ stats.DroppedRequests + ThreadsAt({"mw_select", "mw_drop", "mw_drop2"})
         = flushed.batches
    /\ stats.Dropped + PendingRecs({"mw_select", "mw_drop", "mw_drop2"}, {})
         = flushed.recs
    /\ stats.Successful + stats.Rejected + stats.Cancelled = 0

\* C18 witness: a client with Concurrency 0 at rest after two flush attempts
\* on non-empty bundles, both counted as dropped.
C18_Witness ==
  /\ phase = "running" /\ concurrency = 0
  /\ \A t \in Threads : th[t].pc \in {"idle", "select", "done"}
  /\ flushed.batches = 2
  /\ stats.DroppedRequests = 2
  /\ stats.Dropped = flushed.recs

\* C19: on a client that runs with m.finalize open, the goroutines started
\* and not yet done (supply goroutine, ticker goroutine, workers up to their
\* deferred Done) number at most Concurrency + 2.
C19_TasksBounded ==
  (Live /\ ~finalize) => Registered <= concurrency + 2

\* No flush attempt and no delivery is in progress.
AtRest ==
  /\ \A t \in Threads : th[t].pc \in {"idle", "select", "done"}
  /\ workers = EmptyBag

====
